---- MODULE Spec2Model ----
(***************************************************************************)
(* Model of combine_labels.py: load_labels, process_csv_file and           *)
(* combine_datasets_with_labels, over a small file system.                 *)
(*                                                                         *)
(* A path is a pair <<root, key>>; key k of the label index stands for a   *)
(* relative path, "k.csv" for odd k and "sub/k.csv" for even k.            *)
(* A timestamp string parses to a number of tenths of a second.            *)
(***************************************************************************)
EXTENDS Integers, Sequences, FiniteSets, TLC

VARIABLES
    labels_file,      \* content of the labels JSON file
    fs,               \* path -> file content
    dirs,             \* the directories that exist, <<root, subdirectory>>
    dir_status,       \* subdirectory -> "ok" | "nocreate" | "nowrite" (environment)
    output_dir,       \* argument output_dir ("" when not given)
    pc,               \* position in combine_datasets_with_labels
    labels,           \* local: the loaded label index
    i,                \* number of index entries the loop has handled
    processed_count,  \* local counter
    error_count,      \* local counter
    out,              \* what the loop printed, one record per handled entry
    reads,            \* paths handed to pd.read_csv in this run
    start_fs,         \* fs when this run was invoked
    run,              \* number of the current invocation
    prev              \* outcome of the previous invocation

vars == <<labels_file, fs, dirs, dir_status, output_dir, pc, labels, i,
          processed_count, error_count, out, reads, start_fs, run, prev>>

----------------------------------------------------------------------------
(* Bounds *)

NumKeys == 2
MaxRuns == 2
MaxRows == 2
MaxAnoms == 2

----------------------------------------------------------------------------
(* Values *)

Keys == 1 .. NumKeys

data_dir == "data"
NoDir == ""
Roots == {"data", "out"}
Paths == Roots \X Keys

Range(s) == {s[n] : n \in DOMAIN s}

SeqsUpTo(S, n) == UNION {[1 .. m -> S] : m \in 0 .. n}

\* the timestamp strings of the inputs
TsStrings ==
    {"2024-01-01T00:00:05", "2024-01-01 00:00:05", "2024-01-01T00:00:05.5", "bad"}

\* pd.to_datetime raises on s
Unparsable(s) ==
    s \notin {"2024-01-01T00:00:05", "2024-01-01 00:00:05",
              "2024-01-01T00:00:05.5", "2024-01-01 00:00:05.500000"}

\* pd.to_datetime(s), in tenths of a second since 2024-01-01 00:00:00
to_datetime(s) ==
    CASE s \in {"2024-01-01T00:00:05", "2024-01-01 00:00:05"} -> 50
      [] s \in {"2024-01-01T00:00:05.5", "2024-01-01 00:00:05.500000"} -> 55
      [] OTHER -> -1

\* how DataFrame.to_csv writes a datetime value
format_datetime(t) ==
    CASE t = 50 -> "2024-01-01 00:00:05"
      [] t = 55 -> "2024-01-01 00:00:05.500000"
      [] OTHER -> "NaT"

SubOf(key) == IF key % 2 = 0 THEN "sub" ELSE "."

\* os.path.join(dir, key)
join(dir, key) == <<dir, key>>

\* os.path.dirname(path)
dirname(path) == <<path[1], SubOf(path[2])>>

Missing == [kind |-> "missing", cols |-> <<>>, rows |-> <<>>]
Unreadable == [kind |-> "unreadable", cols |-> <<>>, rows |-> <<>>]

\* os.path.exists(path)
exists(fsys, path) == fsys[path].kind # "missing"

\* a CSV file with header cols; row n holds timestamp ts[n], value n and,
\* if the header has an anomaly column, the stale label 1
CsvFile(cols, ts) ==
    [kind |-> "table",
     cols |-> cols,
     rows |-> [n \in DOMAIN ts |->
                 [c \in Range(cols) |->
                    CASE c = "timestamp" -> ts[n]
                      [] c = "value" -> n
                      [] OTHER -> 1]]]

Layouts ==
    {<<"timestamp", "value">>, <<"value", "timestamp">>,
     <<"timestamp", "value", "anomaly">>, <<"timestamp", "anomaly", "value">>,
     <<"value">>}

----------------------------------------------------------------------------
(* load_labels *)

\* load_labels returning the entries read before the malformed place
load_labels_partial(file) ==
    IF file.kind = "missing"
    THEN [raised |-> TRUE, labels |-> [kind |-> "none", entries |-> <<>>]]
    ELSE [raised |-> FALSE,
          labels |-> [kind |-> IF file.kind = "list" THEN "list" ELSE "mapping",
                      entries |-> IF file.kind = "list" THEN <<>> ELSE file.entries]]

NoLabels == [kind |-> "none", entries |-> <<>>]

\* json.load: raises when the file is missing or not well-formed; a
\* well-formed file whose top-level value is an array loads as a list
load_labels(file) ==
    IF file.kind \in {"missing", "malformed"}
    THEN [raised |-> TRUE, labels |-> NoLabels]
    ELSE [raised |-> FALSE,
          labels |-> [kind |-> file.kind,
                      entries |-> IF file.kind = "mapping" THEN file.entries ELSE <<>>]]

----------------------------------------------------------------------------
(* process_csv_file *)

EmptyDf == [cols |-> <<>>, rows |-> <<>>]

Raise == [raised |-> TRUE, df |-> EmptyDf]

\* df[name] = v that moves an existing column to the end
set_column_last(df, name, v) ==
    [cols |-> Append(SelectSeq(df.cols, LAMBDA c : c # name), name),
     rows |-> [n \in DOMAIN df.rows |->
                 [c \in Range(df.cols) \cup {name} |->
                    IF c = name THEN v ELSE df.rows[n][c]]]]

\* df[name] = v
set_column(df, name, v) ==
    [cols |-> IF name \in Range(df.cols) THEN df.cols ELSE Append(df.cols, name),
     rows |-> [n \in DOMAIN df.rows |->
                 [c \in Range(df.cols) \cup {name} |->
                    IF c = name THEN v ELSE df.rows[n][c]]]]

\* marking with a tolerance of less than a second
mark_within_second(df, anomaly_times) ==
    [df EXCEPT !.rows =
        [n \in DOMAIN df.rows |->
           IF \E a \in Range(anomaly_times) :
                 /\ df.rows[n]["timestamp"] - a < 10
                 /\ a - df.rows[n]["timestamp"] < 10
           THEN [df.rows[n] EXCEPT !["anomaly"] = 1]
           ELSE df.rows[n]]]

\* marking after dropping the rows that repeat an earlier timestamp
mark_drop_duplicates(df, anomaly_times) ==
    LET keep == {n \in DOMAIN df.rows :
                    \A m \in 1 .. n - 1 :
                       df.rows[m]["timestamp"] # df.rows[n]["timestamp"]}
        nth(k) == CHOOSE n \in keep : Cardinality({m \in keep : m <= n}) = k
    IN [df EXCEPT !.rows =
          [k \in 1 .. Cardinality(keep) |->
             IF df.rows[nth(k)]["timestamp"] \in Range(anomaly_times)
             THEN [df.rows[nth(k)] EXCEPT !["anomaly"] = 1]
             ELSE df.rows[nth(k)]]]

\* df.loc[df['timestamp'].isin(anomaly_times), 'anomaly'] = 1
mark_anomalies(df, anomaly_times) ==
    [df EXCEPT !.rows =
        [n \in DOMAIN df.rows |->
           IF df.rows[n]["timestamp"] \in Range(anomaly_times)
           THEN [df.rows[n] EXCEPT !["anomaly"] = 1]
           ELSE df.rows[n]]]

process_csv_file(fsys, csv_path, anomaly_timestamps) ==
    LET file == fsys[csv_path] IN
    IF file.kind # "table" THEN Raise
    ELSE IF "timestamp" \notin Range(file.cols) THEN Raise
    ELSE IF \E n \in DOMAIN file.rows : Unparsable(file.rows[n]["timestamp"]) THEN Raise
    ELSE
      LET parsed == [cols |-> file.cols,
                     rows |-> [n \in DOMAIN file.rows |->
                                 [file.rows[n] EXCEPT !["timestamp"] = to_datetime(@)]]]
          df == set_column(parsed, "anomaly", 0)
      IN IF anomaly_timestamps = <<>> THEN [raised |-> FALSE, df |-> df]
         ELSE IF \E n \in DOMAIN anomaly_timestamps : Unparsable(anomaly_timestamps[n])
         THEN Raise
         ELSE LET anomaly_times == [n \in DOMAIN anomaly_timestamps |->
                                      to_datetime(anomaly_timestamps[n])]
              IN [raised |-> FALSE, df |-> mark_anomalies(df, anomaly_times)]

\* the label column of df
label_column(df) == [n \in DOMAIN df.rows |-> df.rows[n]["anomaly"]]

RECURSIVE SumSeq(_)
SumSeq(s) == IF s = <<>> THEN 0 ELSE s[1] + SumSeq(Tail(s))

\* the three statistics the loop prints: total, anomaly, normal
statistics(df) ==
    LET total_points == Len(df.rows)
        anomaly_points == SumSeq(label_column(df))
    IN <<total_points, anomaly_points, total_points - anomaly_points>>

\* df.to_csv(path, index=False): the file content written
to_csv(df) ==
    [kind |-> "table",
     cols |-> df.cols,
     rows |-> [n \in DOMAIN df.rows |->
                 [df.rows[n] EXCEPT !["timestamp"] = format_datetime(@)]]]

----------------------------------------------------------------------------
(* Directories and the save step *)

\* os.makedirs(d) without exist_ok
makedirs_no_exist_ok(ds, status, d) ==
    LET root == <<d[1], ".">> IN
    IF d \in ds THEN [raised |-> TRUE, dirs |-> ds]
    ELSE IF status[d[2]] = "nocreate" THEN [raised |-> TRUE, dirs |-> ds]
    ELSE IF root \notin ds /\ status["."] = "nocreate" THEN [raised |-> TRUE, dirs |-> ds]
    ELSE [raised |-> FALSE, dirs |-> ds \cup {d, root}]

\* os.makedirs(d, exist_ok=True)
makedirs(ds, status, d) ==
    LET root == <<d[1], ".">> IN
    IF d \in ds THEN [raised |-> FALSE, dirs |-> ds]
    ELSE IF status[d[2]] = "nocreate" THEN [raised |-> TRUE, dirs |-> ds]
    ELSE IF root \notin ds /\ status["."] = "nocreate" THEN [raised |-> TRUE, dirs |-> ds]
    ELSE [raised |-> FALSE, dirs |-> ds \cup {d, root}]

\* writing to the source path in both modes
output_path_in_place(outdir, key) == join(data_dir, key)

\* the path the labeled table of key is written to
output_path(outdir, key) ==
    IF outdir # NoDir THEN join(outdir, key) ELSE join(data_dir, key)

\* a save step that swallows the failure of to_csv
save_best_effort(fsys, ds, status, outdir, key, df) ==
    LET path == output_path(outdir, key)
        made == IF outdir # NoDir THEN makedirs(ds, status, dirname(path))
                ELSE [raised |-> FALSE, dirs |-> ds]
    IN IF made.raised THEN [raised |-> TRUE, fs |-> fsys, dirs |-> ds]
       ELSE IF dirname(path) \notin made.dirs \/ status[SubOf(key)] = "nowrite"
       THEN [raised |-> FALSE, fs |-> fsys, dirs |-> made.dirs]
       ELSE [raised |-> FALSE,
             fs |-> [fsys EXCEPT ![path] = to_csv(df)],
             dirs |-> made.dirs]

\* the save step of the loop body
save(fsys, ds, status, outdir, key, df) ==
    LET path == output_path(outdir, key)
        made == IF outdir # NoDir THEN makedirs(ds, status, dirname(path))
                ELSE [raised |-> FALSE, dirs |-> ds]
    IN IF made.raised THEN [raised |-> TRUE, fs |-> fsys, dirs |-> ds]
       ELSE IF dirname(path) \notin made.dirs \/ status[SubOf(key)] = "nowrite"
       THEN [raised |-> TRUE, fs |-> fsys, dirs |-> made.dirs]
       ELSE [raised |-> FALSE,
             fs |-> [fsys EXCEPT ![path] = to_csv(df)],
             dirs |-> made.dirs]

----------------------------------------------------------------------------
(* combine_datasets_with_labels *)

Entry == labels.entries[i + 1]

full_csv_path == join(data_dir, Entry.key)

Result == process_csv_file(fs, full_csv_path, Entry.anoms)

Saved == save(fs, dirs, dir_status, output_dir, Entry.key, Result.df)

\* what the loop prints for one entry
Printed(key, outcome, df, saved_to) ==
    [key |-> key, outcome |-> outcome,
     stats |-> IF outcome \in {"missing", "raised"} THEN <<>> ELSE statistics(df),
     label |-> IF outcome \in {"missing", "raised"} THEN <<>> ELSE label_column(df),
     cols |-> df.cols,
     saved_to |-> saved_to]

\* labels = load_labels(labels_file); an exception leaves the function
Load ==
    /\ pc = "start"
    /\ LET r == load_labels(labels_file) IN
         IF r.raised
         THEN /\ pc' = "aborted"
              /\ labels' = labels
         ELSE /\ pc' = "loaded"
              /\ labels' = r.labels
    /\ UNCHANGED <<labels_file, fs, dirs, dir_status, output_dir, i, processed_count,
                   error_count, out, reads, start_fs, run, prev>>

\* os.makedirs(output_dir), the two counters, and the start of the for
\* statement (labels.items()); an exception leaves the function
EnterLoop ==
    /\ pc = "loaded"
    /\ LET made == IF output_dir # NoDir
                   THEN makedirs(dirs, dir_status, <<output_dir, ".">>)
                   ELSE [raised |-> FALSE, dirs |-> dirs]
       IN /\ dirs' = made.dirs
          /\ pc' = IF made.raised \/ labels.kind # "mapping" THEN "aborted" ELSE "loop"
    /\ processed_count' = 0
    /\ error_count' = 0
    /\ i' = 0
    /\ UNCHANGED <<labels_file, fs, dir_status, output_dir, labels, out, reads,
                   start_fs, run, prev>>

\* no except clause: the exception leaves the function
Uncaught(printed) ==
    /\ error_count' = error_count
    /\ processed_count' = processed_count
    /\ out' = out
    /\ i' = i
    /\ pc' = "aborted"

\* the except clause of the loop body, and on to the next entry
Caught(printed) ==
    /\ error_count' = error_count + 1
    /\ processed_count' = processed_count
    /\ out' = Append(out, printed)
    /\ i' = i + 1
    /\ pc' = "loop"

\* a missing file that is skipped without being counted
EntryMissing_Uncounted ==
    /\ pc = "loop"
    /\ i < Len(labels.entries)
    /\ ~exists(fs, full_csv_path)
    /\ out' = Append(out, Printed(Entry.key, "missing", EmptyDf, <<>>))
    /\ i' = i + 1
    /\ UNCHANGED <<labels_file, fs, dirs, dir_status, output_dir, pc, labels,
                   processed_count, error_count, reads, start_fs, run, prev>>

\* the file of the entry does not exist
EntryMissing ==
    /\ pc = "loop"
    /\ i < Len(labels.entries)
    /\ ~exists(fs, full_csv_path)
    /\ error_count' = error_count + 1
    /\ out' = Append(out, Printed(Entry.key, "missing", EmptyDf, <<>>))
    /\ i' = i + 1
    /\ UNCHANGED <<labels_file, fs, dirs, dir_status, output_dir, pc, labels,
                   processed_count, reads, start_fs, run, prev>>

\* process_csv_file raises
EntryRaises ==
    /\ pc = "loop"
    /\ i < Len(labels.entries)
    /\ exists(fs, full_csv_path)
    /\ Result.raised
    /\ reads' = reads \cup {full_csv_path}
    /\ Caught(Printed(Entry.key, "raised", EmptyDf, <<>>))
    /\ UNCHANGED <<labels_file, fs, dirs, dir_status, output_dir, labels,
                   start_fs, run, prev>>

\* a save failure that ends the run
EntryWriteFails_Fatal ==
    /\ pc = "loop"
    /\ i < Len(labels.entries)
    /\ exists(fs, full_csv_path)
    /\ ~Result.raised
    /\ Saved.raised
    /\ reads' = reads \cup {full_csv_path}
    /\ dirs' = Saved.dirs
    /\ pc' = "aborted"
    /\ UNCHANGED <<labels_file, fs, dir_status, output_dir, labels, i,
                   processed_count, error_count, out, start_fs, run, prev>>

\* the table is labeled and its statistics printed, and the save raises
EntryWriteFails ==
    /\ pc = "loop"
    /\ i < Len(labels.entries)
    /\ exists(fs, full_csv_path)
    /\ ~Result.raised
    /\ Saved.raised
    /\ reads' = reads \cup {full_csv_path}
    /\ dirs' = Saved.dirs
    /\ Caught(Printed(Entry.key, "unsaved", Result.df, <<>>))
    /\ UNCHANGED <<labels_file, fs, dir_status, output_dir, labels,
                   start_fs, run, prev>>

\* the table is labeled, its statistics printed, and it is saved
EntrySaved ==
    /\ pc = "loop"
    /\ i < Len(labels.entries)
    /\ exists(fs, full_csv_path)
    /\ ~Result.raised
    /\ ~Saved.raised
    /\ reads' = reads \cup {full_csv_path}
    /\ dirs' = Saved.dirs
    /\ fs' = Saved.fs
    /\ processed_count' = processed_count + 1
    /\ out' = Append(out, Printed(Entry.key, "saved", Result.df,
                                  output_path(output_dir, Entry.key)))
    /\ i' = i + 1
    /\ UNCHANGED <<labels_file, dir_status, output_dir, pc, labels, error_count,
                   start_fs, run, prev>>

\* the final summary
Finish ==
    /\ pc = "loop"
    /\ i = Len(labels.entries)
    /\ pc' = "done"
    /\ UNCHANGED <<labels_file, fs, dirs, dir_status, output_dir, labels, i,
                   processed_count, error_count, out, reads, start_fs, run, prev>>

\* the function is called again with the same arguments
Rerun ==
    /\ pc \in {"done", "aborted"}
    /\ run < MaxRuns
    /\ prev' = [pc |-> pc, processed |-> processed_count, errors |-> error_count,
                out |-> out, fs |-> fs]
    /\ run' = run + 1
    /\ pc' = "start"
    /\ labels' = NoLabels
    /\ i' = 0
    /\ processed_count' = 0
    /\ error_count' = 0
    /\ out' = <<>>
    /\ reads' = {}
    /\ start_fs' = fs
    /\ UNCHANGED <<labels_file, fs, dirs, dir_status, output_dir>>

Next ==
    \/ Load
    \/ EnterLoop
    \/ EntryMissing
    \/ EntryRaises
    \/ EntryWriteFails
    \/ EntrySaved
    \/ Finish
    \/ Rerun

----------------------------------------------------------------------------
(* Initial states *)

Statuses == {"ok", "nocreate", "nowrite"}

GoodFile == CsvFile(<<"timestamp", "value">>, <<"2024-01-01T00:00:05">>)

BadTimestampFile == CsvFile(<<"timestamp", "value">>, <<"bad">>)

NoTimestampFile == CsvFile(<<"value">>, <<"2024-01-01T00:00:05">>)

\* the entries of the runs over several keys: a data file and its anomaly list
SampleEntries ==
    {[file |-> Missing, anoms |-> <<>>],
     [file |-> Missing, anoms |-> <<"2024-01-01 00:00:05">>],
     [file |-> Unreadable, anoms |-> <<>>],
     [file |-> GoodFile, anoms |-> <<>>],
     [file |-> GoodFile, anoms |-> <<"2024-01-01 00:00:05">>],
     [file |-> GoodFile, anoms |-> <<"bad">>],
     [file |-> BadTimestampFile, anoms |-> <<"2024-01-01 00:00:05">>],
     [file |-> NoTimestampFile, anoms |-> <<"2024-01-01 00:00:05">>]}

\* the label index that names the keys of e with their anomaly lists
IndexOf(e) == [k \in DOMAIN e |-> [key |-> k, anoms |-> e[k].anoms]]

\* the data directory that holds the files of e; nothing else exists
FileSystemOf(e) ==
    [p \in Paths |-> IF p[1] = data_dir /\ p[2] \in DOMAIN e THEN e[p[2]].file
                     ELSE Missing]

InitLocals ==
    /\ pc = "start"
    /\ labels = NoLabels
    /\ i = 0
    /\ processed_count = 0
    /\ error_count = 0
    /\ out = <<>>
    /\ reads = {}
    /\ start_fs = fs
    /\ run = 1
    /\ prev = [pc |-> "none", processed |-> 0, errors |-> 0, out |-> <<>>, fs |-> fs]
    /\ dirs = {<<data_dir, ".">>, <<data_dir, "sub">>}

Init ==
    /\ \E n \in 0 .. NumKeys :
         \E e \in [1 .. n -> SampleEntries] :
            /\ fs = FileSystemOf(e)
            /\ \E kind \in IF n = NumKeys
                           THEN {"mapping", "missing", "malformed", "list"}
                           ELSE {"mapping"} :
                  labels_file = [kind |-> kind, entries |-> IndexOf(e)]
    /\ output_dir \in {NoDir, "data", "out"}
    /\ dir_status \in [{".", "sub"} -> Statuses]
    /\ InitLocals

Spec == Init /\ [][Next]_vars

\* one entry, with every table layout and every timestamp list
InitLabel ==
    /\ \/ /\ \E a \in SeqsUpTo(TsStrings, MaxAnoms) :
               labels_file = [kind |-> "mapping",
                              entries |-> <<[key |-> 1, anoms |-> a]>>]
          /\ \E cols \in Layouts, ts \in SeqsUpTo(TsStrings, MaxRows) :
               fs = [p \in Paths |-> IF p = <<data_dir, 1>> THEN CsvFile(cols, ts)
                                     ELSE Missing]
          /\ output_dir = NoDir
          /\ dir_status = [d \in {".", "sub"} |-> "ok"]
       \/ /\ \E e \in [{1} -> SampleEntries] :
                /\ fs = FileSystemOf(e)
                /\ labels_file = [kind |-> "mapping", entries |-> IndexOf(e)]
          /\ output_dir \in {NoDir, "out"}
          /\ dir_status \in [{".", "sub"} -> Statuses]
    /\ InitLocals

SpecLabel == InitLabel /\ [][Next]_vars

----------------------------------------------------------------------------
(* Properties *)

Handled == 1 .. Len(out)

KeyOf(n) == labels.entries[n].key

AnomsOf(n) == labels.entries[n].anoms

\* the data file of the n-th entry as it was when the run started
InputOf(n) == start_fs[join(data_dir, KeyOf(n))]

Labeled(n) == out[n].outcome \in {"saved", "unsaved"}

WasSaved(n) == out[n].outcome = "saved"

WrittenOf(n) == fs[out[n].saved_to]

Last(s) == s[Len(s)]

\* C1: every labeled row has label 0 or 1, and 1 exactly when its parsed
\* timestamp equals the parsed value of some entry of the file's anomaly
\* list; with an empty list every label is 0 and the anomaly count is 0.
C1_LabelIffParsedMatch ==
    \A n \in Handled :
       Labeled(n) =>
          /\ DOMAIN out[n].label = DOMAIN InputOf(n).rows
          /\ \A r \in DOMAIN InputOf(n).rows :
                /\ out[n].label[r] \in {0, 1}
                /\ out[n].label[r] = 1 <=>
                      \E a \in DOMAIN AnomsOf(n) :
                         to_datetime(InputOf(n).rows[r]["timestamp"])
                            = to_datetime(AnomsOf(n)[a])
          /\ AnomsOf(n) = <<>> =>
                /\ \A r \in DOMAIN out[n].label : out[n].label[r] = 0
                /\ out[n].stats[2] = 0

\* a table with a row labeled 1 whose timestamp is written differently from
\* the matching anomaly entry, and a row labeled 0 a half second later
C1_Witness ==
    \E n \in Handled :
       /\ WasSaved(n)
       /\ \E r, q \in DOMAIN out[n].label :
             /\ out[n].label[r] = 1
             /\ out[n].label[q] = 0
             /\ InputOf(n).rows[r]["timestamp"] \notin Range(AnomsOf(n))
             /\ InputOf(n).rows[q]["timestamp"] = "2024-01-01T00:00:05.5"

\* C8: the written table has the rows of the input, in the same order, and
\* the printed statistics are total = anomaly + normal with anomaly the
\* number of rows labeled 1.
C8_RowsPreserved ==
    \A n \in Handled :
       /\ Labeled(n) =>
             /\ out[n].stats[1] = Len(InputOf(n).rows)
             /\ out[n].stats[1] = out[n].stats[2] + out[n].stats[3]
             /\ out[n].stats[2] =
                   Cardinality({r \in DOMAIN out[n].label : out[n].label[r] = 1})
             /\ Len(out[n].label) = Len(InputOf(n).rows)
       /\ WasSaved(n) =>
             /\ Len(WrittenOf(n).rows) = Len(InputOf(n).rows)
             /\ \A r \in DOMAIN InputOf(n).rows :
                   /\ WrittenOf(n).rows[r]["value"] = InputOf(n).rows[r]["value"]
                   /\ to_datetime(WrittenOf(n).rows[r]["timestamp"])
                         = to_datetime(InputOf(n).rows[r]["timestamp"])
                   /\ WrittenOf(n).rows[r]["anomaly"] = out[n].label[r]

\* two rows share a timestamp and an anomaly timestamp matches no row
C8_Witness ==
    \E n \in Handled :
       /\ WasSaved(n)
       /\ Len(InputOf(n).rows) = 2
       /\ InputOf(n).rows[1]["timestamp"] = InputOf(n).rows[2]["timestamp"]
       /\ out[n].stats[2] = 2
       /\ \E a \in DOMAIN AnomsOf(n) :
             \A r \in DOMAIN InputOf(n).rows :
                to_datetime(AnomsOf(n)[a]) # to_datetime(InputOf(n).rows[r]["timestamp"])

\* C6 as stated: the written table has the input's columns in their order
\* and the label column as its last column.
C6_LabelColumnLast ==
    \A n \in Handled :
       WasSaved(n) =>
          /\ Last(WrittenOf(n).cols) = "anomaly"
          /\ SubSeq(WrittenOf(n).cols, 1, Len(InputOf(n).cols)) = InputOf(n).cols

\* C6 amended: the written table has the input's columns in their order;
\* the label column is appended as the last column when the input has no
\* column named anomaly, and otherwise the input's anomaly column is
\* overwritten where it stands and no column is added.
C6_ColumnsKeptLabelInPlace ==
    \A n \in Handled :
       WasSaved(n) =>
          /\ WrittenOf(n).cols =
                IF "anomaly" \in Range(InputOf(n).cols) THEN InputOf(n).cols
                ELSE InputOf(n).cols \o <<"anomaly">>
          /\ \A r \in DOMAIN InputOf(n).rows :
                /\ WrittenOf(n).rows[r]["value"] = InputOf(n).rows[r]["value"]
                /\ WrittenOf(n).rows[r]["anomaly"] = out[n].label[r]

\* a saved table whose input has an anomaly column that is not the last one
C6_Witness ==
    \E n \in Handled :
       /\ WasSaved(n)
       /\ InputOf(n).cols = <<"timestamp", "anomaly", "value">>
       /\ Len(InputOf(n).rows) > 0

----------------------------------------------------------------------------
(* Properties of the loop *)

InLoop == pc = "loop" /\ i < Len(labels.entries)

\* the body of the loop is about to raise for the current entry
BodyRaises == InLoop /\ exists(fs, full_csv_path) /\ (Result.raised \/ Saved.raised)

\* the save step of the loop is about to raise for the current entry
SaveRaises == InLoop /\ exists(fs, full_csv_path) /\ ~Result.raised /\ Saved.raised

\* the step counts one error and goes on with the next entry
CountedAsError ==
    /\ error_count' = error_count + 1
    /\ processed_count' = processed_count
    /\ i' = i + 1
    /\ pc' = "loop"

\* os.makedirs(output_dir) raises
RootCreationFails ==
    output_dir # NoDir /\ makedirs(dirs, dir_status, <<output_dir, ".">>).raised

\* a step of the loop: one entry handled, or the summary after the last one
LoopStep == EntryMissing \/ EntryRaises \/ EntryWriteFails \/ EntrySaved \/ Finish

\* C2 as stated, its last part: once the index has been loaded the run
\* reaches the final summary, so it never ends on an exception.
C2_LoadedRunReachesSummary == labels.kind = "mapping" => pc # "aborted"

\* C2 amended: an exception raised in the body of the loop for one entry is
\* counted as one error, not as processed, and the loop goes on: once the
\* loop has been entered (the index loaded as a mapping and the output root,
\* when given, created) the run does not end before the final summary, which
\* comes after every entry has been handled.
C2_EntryExceptionCaught ==
    /\ [][BodyRaises => CountedAsError]_vars
    /\ [](pc = "aborted" =>
             /\ Len(out) = 0
             /\ labels.kind # "mapping" \/ RootCreationFails)
    /\ [](pc = "loop" => ENABLED LoopStep)
    /\ [](pc = "done" => Len(out) = Len(labels.entries))

\* the first entry raised, the second one was saved, the summary is reached
C2_Witness ==
    /\ pc = "done"
    /\ Len(out) = 2
    /\ out[1].outcome = "raised"
    /\ out[2].outcome = "saved"

\* C3: an entry whose file does not exist counts one error and nothing as
\* processed; no file is read, created or written for it in either mode;
\* the other entries are still handled.
C3_MissingFileSkipped ==
    /\ [][(InLoop /\ ~exists(fs, full_csv_path)) =>
             (CountedAsError /\ fs' = fs /\ dirs' = dirs /\ reads' = reads)]_vars
    /\ [](\A n \in Handled :
             ~exists(start_fs, join(data_dir, KeyOf(n))) =>
                /\ out[n].outcome = "missing"
                /\ join(data_dir, KeyOf(n)) \notin reads
                /\ ~exists(fs, join(data_dir, KeyOf(n)))
                /\ fs[output_path(output_dir, KeyOf(n))]
                      = start_fs[output_path(output_dir, KeyOf(n))])
    /\ [](pc = "done" => Len(out) = Len(labels.entries))

\* a missing file before a saved one, in mirrored mode
C3_Witness ==
    /\ pc = "done"
    /\ output_dir = "out"
    /\ Len(out) = 2
    /\ out[1].outcome = "missing"
    /\ out[2].outcome = "saved"
    /\ error_count = 1

\* C4: when load_labels fails the run ends before the loop: nothing is read,
\* no file is written and no entry is counted.
C4_LoadFailureAborts ==
    labels_file.kind \in {"missing", "malformed"} =>
       /\ pc \in {"start", "aborted"}
       /\ reads = {}
       /\ fs = start_fs
       /\ fs = prev.fs
       /\ processed_count = 0
       /\ error_count = 0
       /\ out = <<>>

\* a malformed labels file naming a readable table, and the run has ended
C4_Witness ==
    /\ labels_file.kind = "malformed"
    /\ pc = "aborted"
    /\ \E n \in DOMAIN labels_file.entries :
          fs[join(data_dir, labels_file.entries[n].key)].kind = "table"

\* C5 as stated, for the output root: when the output root cannot be created
\* the failure is caught and the run goes on to the final summary.
C5_RootFailureNotFatal ==
    (labels.kind = "mapping" /\ RootCreationFails) => pc \in {"loaded", "loop", "done"}

\* C5 amended: a failure to create an intermediate directory of the mirrored
\* tree or to write a file is caught, counted as one error, and the run goes
\* on to the summary; a failure to create the output root ends the run, as
\* do a load failure and an index that is no mapping.
C5_WriteFailureCaughtInLoop ==
    /\ [][SaveRaises => (CountedAsError /\ fs' = fs)]_vars
    /\ [][(pc = "loaded" /\ RootCreationFails) => pc' = "aborted"]_vars
    /\ [](pc = "aborted" =>
             \/ labels_file.kind \in {"missing", "malformed", "list"}
             \/ RootCreationFails)

\* a write failure, then a saved entry, then the summary
C5_Witness ==
    /\ pc = "done"
    /\ Len(out) = 2
    /\ out[1].outcome = "unsaved"
    /\ out[2].outcome = "saved"

DataPaths == {p \in Paths : p[1] = data_dir}

\* C7 as stated: with output_dir given every saved table is at
\* output_dir/<key> and no file of the data directory is modified; without
\* it the source file is overwritten.
C7_MirroredLeavesDataDir ==
    /\ output_dir # NoDir =>
          /\ \A n \in Handled : WasSaved(n) => out[n].saved_to = join(output_dir, KeyOf(n))
          /\ \A p \in DataPaths : fs[p] = start_fs[p]
    /\ output_dir = NoDir =>
          \A n \in Handled : WasSaved(n) => out[n].saved_to = join(data_dir, KeyOf(n))

\* C7 amended: with output_dir given and different from the data directory,
\* every saved table is at output_dir/<key> and no file of the data
\* directory is modified; without output_dir the source file is overwritten;
\* in every mode only the paths of saved entries change.
C7_MirroredOutsideDataDir ==
    /\ output_dir \notin {NoDir, data_dir} =>
          /\ \A n \in Handled :
                WasSaved(n) =>
                   /\ out[n].saved_to = join(output_dir, KeyOf(n))
                   /\ WrittenOf(n).kind = "table"
                   /\ label_column(WrittenOf(n)) = out[n].label
          /\ \A p \in DataPaths : fs[p] = start_fs[p] /\ fs[p] = prev.fs[p]
    /\ output_dir = NoDir =>
          \A n \in Handled :
             WasSaved(n) =>
                /\ out[n].saved_to = join(data_dir, KeyOf(n))
                /\ WrittenOf(n).kind = "table"
                /\ label_column(WrittenOf(n)) = out[n].label
    /\ \A p \in Paths :
          fs[p] # start_fs[p] => \E n \in Handled : WasSaved(n) /\ out[n].saved_to = p

\* a table saved under out/sub
C7_Witness ==
    /\ pc = "done"
    /\ output_dir = "out"
    /\ \E n \in Handled :
          /\ WasSaved(n)
          /\ KeyOf(n) = 2
          /\ <<"out", "sub">> \in dirs
          /\ fs[<<"out", 2>>].kind = "table"

OutputPaths == {p \in Paths : p[1] = output_dir}

\* C9: a second run in mirrored mode ends as the first one did, with the
\* same counts, the same label column for every entry and the same output
\* files.
C9_MirroredRerunSame ==
    (run > 1 /\ output_dir # NoDir /\ pc \in {"done", "aborted"}) =>
       /\ pc = prev.pc
       /\ processed_count = prev.processed
       /\ error_count = prev.errors
       /\ Len(out) = Len(prev.out)
       /\ \A n \in Handled :
             /\ out[n].label = prev.out[n].label
             /\ out[n].outcome = prev.out[n].outcome
       /\ \A p \in OutputPaths : fs[p] = prev.fs[p]

\* the second run has saved a table with a row labeled 1 under out/sub
C9_Witness ==
    /\ run = 2
    /\ pc = "done"
    /\ output_dir = "out"
    /\ \E n \in Handled :
          /\ WasSaved(n)
          /\ KeyOf(n) = 2
          /\ 1 \in Range(out[n].label)

\* C10: the loop counts every handled entry once, as processed or as an
\* error, so processed + errors is the number of entries handled and, at
\* the summary, the number of entries of the index; an entry counted as
\* processed has its labeled table written.
C10_CountersPartitionEntries ==
    /\ Len(out) = i
    /\ processed_count + error_count = i
    /\ processed_count = Cardinality({n \in Handled : WasSaved(n)})
    /\ error_count = Cardinality({n \in Handled : ~WasSaved(n)})
    /\ pc = "done" => processed_count + error_count = Len(labels.entries)
    /\ \A n \in Handled :
          WasSaved(n) =>
             /\ WrittenOf(n).kind = "table"
             /\ label_column(WrittenOf(n)) = out[n].label
             /\ Len(WrittenOf(n).rows) = out[n].stats[1]

\* the summary of a run with one entry processed and one in error
C10_Witness ==
    /\ pc = "done"
    /\ Len(labels.entries) = 2
    /\ processed_count = 1
    /\ error_count = 1

====
